---- MODULE Spec2Model ----
(***************************************************************************)
(* Model of the Hot VS Code extension (extension.js): the analyzer         *)
(* (language client) life cycle, evaluateHotCode with its CLI fallback,    *)
(* showInlineResult with its two clearing triggers, formatHotDocument      *)
(* with its temporary file, getTopLevelForm, and activate() and            *)
(* deactivate() with the installed-version probe and the update check.     *)
(*                                                                         *)
(* The extension host is single threaded: every action below is one run    *)
(* of a handler or callback from one suspension point to the next.         *)
(***************************************************************************)
EXTENDS Integers, Sequences, FiniteSets, TLC

\* ------------------------------------------------------------------ bounds
\* LanguageClient objects that may be created in one behaviour.
MaxClients == 2

Clients == 1..MaxClients

\* ---------------------------------------------------------------- analyzer
VARIABLES
    client,          \* `client`: 0 is null, otherwise the LanguageClient object
    isRunning,       \* `isRunning`
    runningVersion,  \* `runningVersion`: 0 is null, otherwise the client whose serverInfo was read
    statusBarItem,   \* `statusBarItem`: NoItem, or its text / command / tooltip state line
    channel,         \* `channel` exists
    cstate,          \* state of each LanguageClient object ever created
    created,         \* how many LanguageClient objects `new LanguageClient` has made
    awaiting         \* per client: the handler suspended in `await c.stop().catch(...)`

analyzerVars == <<client, isRunning, runningVersion, statusBarItem, channel,
                  cstate, created, awaiting>>

VARIABLES
    epc,        \* per call: "idle", "lsp" (awaiting sendRequest), "cli" (awaiting the execFile callback), "done"
    eargs,      \* per call: the arguments (code, namespace, fileUri) while the call runs
    lspSent,    \* per call: the hot/eval requests sent, in order, each with its client
    lspInFlight,\* per call: a hot/eval request has been sent and not yet settled
    lspFailed,  \* per call: the catch block of the server request has run
    cliSpawns,  \* per call: how often execFile(commandPath, ['eval', code]) was called
    cliProc,    \* per call: "none", "running", or "ended" (callback delivered)
    cliOut,     \* per call: the (error, stdout, stderr) the execFile callback got
    lspIn,      \* per call: the value sendRequest resolved with
    eresult,    \* per call: the EvalResult the returned promise resolved with
    resolves    \* per call: how often the returned promise was resolved

evalVars == <<epc, eargs, lspSent, lspInFlight, lspFailed, cliSpawns, cliProc,
              cliOut, lspIn, eresult, resolves>>

VARIABLES
    evalResultDecorationType, \* `evalResultDecorationType`: 0 is null, otherwise the type object
    decorations,  \* what the editor shows for the decoration type: None or the annotation
    shows,        \* how many calls of showInlineResult there have been
    listener,     \* per call: its onDidChangeTextDocument listener is registered
    timer,        \* per call: its 10 s timer is pending
    clears        \* per call: the setDecorations(decorationType, []) calls its two triggers made

inlineVars == <<evalResultDecorationType, decorations, shows, listener, timer, clears>>

VARIABLES
    now,        \* Date.now(), in milliseconds
    files,      \* the temporary directory: per path hot-fmt-<ms>.hot its content, or NoFile
    fpc,        \* per call of formatHotDocument: "idle", "running" (awaiting the execFile callback), "settled"
    fcontent,   \* per call: `content`, the document text at the call
    ftmp,       \* per call: `tmpFile`, by the millisecond in its name
    fexit,      \* per call: how the callback was entered (error, why, marker, readOk), or how the call failed
    fread,      \* per call: `formatted`, what readFileSync returned, or NoFile
    fsettled,   \* per call: "pending", "resolved" or "rejected"
    fedits      \* per call: the edit list the promise resolved with

formatVars == <<now, files, fpc, fcontent, ftmp, fexit, fread, fsettled, fedits>>

VARIABLES
    document,   \* `editor.document`: the lines of the document getTopLevelForm was run on
    position,   \* `editor.selection.active.line` of that run
    form,       \* what getTopLevelForm returned
    standalone  \* the document is the text of an earlier result, opened on its own: that text, else None

formVars == <<document, position, form, standalone>>

VARIABLES
    session,            \* this extension host: "loaded", "active", "deactivating" (deactivate awaits c.stop()), "deactivated"
    activation,         \* the settings and workspace activate() found: lspEnabled and the number of folders, else None
    replTerminal,       \* `replTerminal`: 0 is null, otherwise the terminal
    evalOutputChannel,  \* `evalOutputChannel` exists
    installedVersion,   \* per activation: `installedVersion`, Null until `hot version` was parsed
    vproc,              \* per activation: the `hot version` child: "none", "running", "ended"
    upc,                \* per activation: checkForUpdates is "none" (not called), "skipped", "waiting" (polls for installedVersion), "requesting", "done"
    clock,              \* Date.now(), in half days
    hotLastUpdateCheck, \* globalState key hotLastUpdateCheck: shared by all activations
    requestLog,         \* the https.get requests to VERSION_CHECK_URL: who and when
    notifyLog           \* the update notifications shown: who and when

VARIABLES
    replCalls,  \* how many times sendToRepl was called; a call's text is named by its number
    replTimers, \* the calls whose 1500 ms timer is pending
    replSent    \* what sendText was given on the REPL terminals, in order: ReplCommand or a call's number

replVars == <<replCalls, replTimers, replSent>>

VARIABLES
    comparison  \* a call of compareSemver: its two arguments and what it returned for them in both orders, else NotCompared

semverVars == <<comparison>>

sessionVars == <<session, activation, replTerminal, evalOutputChannel, installedVersion,
                 vproc, upc, clock, hotLastUpdateCheck, requestLog, notifyLog, replVars,
                 semverVars>>

vars == <<analyzerVars, evalVars, inlineVars, formatVars, formVars, sessionVars>>

\* The variables the analyzer's actions leave alone.
otherVars == <<evalVars, inlineVars, formatVars, formVars, sessionVars>>

\* The variables the actions of evaluateHotCode leave alone.
evalOthers == <<analyzerVars, inlineVars, formatVars, formVars, sessionVars>>

\* The variables the actions of showInlineResult leave alone.
inlineOthers == <<analyzerVars, evalVars, formatVars, formVars, sessionVars>>

\* The variables the actions of formatHotDocument leave alone.
formatOthers == <<analyzerVars, evalVars, inlineVars, formVars, sessionVars>>

\* The variables the runs of getTopLevelForm leave alone.
formOthers == <<analyzerVars, evalVars, inlineVars, formatVars, sessionVars>>

NoItem == [text |-> "none", command |-> "none", tooltip |-> "none"]

\* The globals the analyzer code reads and writes, as one record, so that the
\* calls a handler makes can be composed in the order the code makes them.
Globals ==
    [client |-> client, isRunning |-> isRunning, runningVersion |-> runningVersion,
     statusBarItem |-> statusBarItem, channel |-> channel, cstate |-> cstate,
     created |-> created]

SetGlobals(g) ==
    /\ client' = g.client
    /\ isRunning' = g.isRunning
    /\ runningVersion' = g.runningVersion
    /\ statusBarItem' = g.statusBarItem
    /\ channel' = g.channel
    /\ cstate' = g.cstate
    /\ created' = g.created

\* buildTooltip(): of the tooltip only the state line is followed.
buildTooltip(g) == IF g.isRunning THEN "Running" ELSE "Stopped"

\* updateStatus(text, tooltip, command): creates the item on first use.
updateStatus(g, text, command) ==
    [g EXCEPT !.statusBarItem =
        [text |-> text, command |-> command, tooltip |-> buildTooltip(g)]]

\* e.newState as vscode-languageclient reports it for a client's state:
\* its State enum is Stopped = 1, Running = 2, Starting = 3, and a client
\* that is stopping already reports Stopped.
PublicState(s) ==
    CASE s = "running" -> 2
      [] s = "starting" -> 3
      [] OTHER -> 1

\* The listener startClient registers with client.onDidChangeState.  It reads
\* the global `client`, not the client that fired the event.
OnDidChangeState(g, newState) ==
    IF newState = 2
    THEN LET g1 == [g EXCEPT !.isRunning = TRUE]
             g2 == IF g1.client # 0 /\ g1.cstate[g1.client] \in {"running", "stopping"}
                   THEN [g1 EXCEPT !.runningVersion = g1.client]
                   ELSE g1
         IN  updateStatus(g2, "check", "hot.restartAnalyzer")
    ELSE IF newState = 1
    THEN updateStatus([g EXCEPT !.isRunning = FALSE], "sync~spin", "hot.restartAnalyzer")
    ELSE updateStatus([g EXCEPT !.isRunning = FALSE, !.runningVersion = 0],
                      "circle-slash", "hot.startAnalyzer")

\* A state change of client object c: the library sets the state and fires the
\* listener synchronously when the public state changed.
SetClientState(g, c, s) ==
    LET old == PublicState(g.cstate[c])
        g1 == [g EXCEPT !.cstate[c] = s]
    IN  IF PublicState(s) # old THEN OnDidChangeState(g1, PublicState(s)) ELSE g1

\* startClient() would reach `new LanguageClient`.
WouldCreate(g, lspEnabled, folders) == g.client = 0 /\ lspEnabled /\ folders > 0

\* startClient without the check of hot.lsp.enabled.
startClient_IgnoresSetting(g, lspEnabled, folders) ==
    IF g.client # 0 THEN g
    ELSE IF folders = 0 THEN g
    ELSE LET c  == g.created + 1
             g1 == [g EXCEPT !.channel = TRUE, !.client = c, !.created = c,
                             !.cstate[c] = "initial", !.isRunning = FALSE]
             g2 == updateStatus(g1, "sync~spin", "hot.restartAnalyzer")
         IN  SetClientState(g2, c, "starting")

startClient(g, lspEnabled, folders) ==
    IF g.client # 0 THEN g
    ELSE IF ~lspEnabled
    THEN updateStatus(g, "circle-slash", "hot.startAnalyzer")
    ELSE IF folders = 0 THEN g
    ELSE LET c  == g.created + 1
             g1 == [g EXCEPT !.channel = TRUE, !.client = c, !.created = c,
                             !.cstate[c] = "initial", !.isRunning = FALSE]
             g2 == updateStatus(g1, "sync~spin", "hot.restartAnalyzer")
         IN  \* client.start(): Initial -> Starting, reported at once
             SetClientState(g2, c, "starting")

\* c.stop(): a running client starts stopping (and reports Stopped at once);
\* a client that is still starting is either stopped as well or refuses (the
\* promise rejects, which `.catch(() => {})` absorbs) and goes on starting.
StopOutcomes(g, c) ==
    CASE g.cstate[c] = "running"  -> {SetClientState(g, c, "stopping")}
      [] g.cstate[c] = "starting" -> {SetClientState(g, c, "stopping"), g}
      [] OTHER -> {g}

\* The settings and workspace a call of startClient reads.
Folders == 0..1

\* command hot.startAnalyzer
StartAnalyzer ==
    \E lspEnabled \in BOOLEAN, folders \in Folders :
        /\ WouldCreate(Globals, lspEnabled, folders) => created < MaxClients
        /\ SetGlobals(startClient(Globals, lspEnabled, folders))
        /\ UNCHANGED <<awaiting, otherVars>>

\* command hot.stopAnalyzer, up to its await
StopAnalyzer ==
    /\ client # 0
    /\ LET c  == client
           g1 == [Globals EXCEPT !.client = 0, !.isRunning = FALSE]
           g2 == updateStatus(g1, "sync~spin", "hot.startAnalyzer")
       IN  /\ \E g3 \in StopOutcomes(g2, c) : SetGlobals(g3)
           /\ awaiting' = [awaiting EXCEPT ![c] = "stop"]
           /\ UNCHANGED otherVars

\* command hot.stopAnalyzer, after its await
StopAnalyzerResume(c) ==
    /\ awaiting[c] = "stop"
    /\ cstate[c] # "stopping"
    /\ SetGlobals(updateStatus(Globals, "circle-slash", "hot.startAnalyzer"))
    /\ awaiting' = [awaiting EXCEPT ![c] = "none"]
    /\ UNCHANGED otherVars

\* command hot.restartAnalyzer, up to its await; without a client there is no
\* await and startClient() runs at once.
RestartAnalyzer ==
    IF client # 0
    THEN LET c  == client
             g1 == [Globals EXCEPT !.client = 0]
             g2 == updateStatus(g1, "sync~spin", "hot.restartAnalyzer")
         IN  /\ \E g3 \in StopOutcomes(g2, c) : SetGlobals(g3)
             /\ awaiting' = [awaiting EXCEPT ![c] = "restart"]
             /\ UNCHANGED otherVars
    ELSE \E lspEnabled \in BOOLEAN, folders \in Folders :
             /\ WouldCreate(Globals, lspEnabled, folders) => created < MaxClients
             /\ SetGlobals(startClient(Globals, lspEnabled, folders))
             /\ UNCHANGED <<awaiting, otherVars>>

\* command hot.restartAnalyzer, after its await
RestartAnalyzerResume(c) ==
    \E lspEnabled \in BOOLEAN, folders \in Folders :
        /\ awaiting[c] = "restart"
        /\ cstate[c] # "stopping"
        /\ WouldCreate(Globals, lspEnabled, folders) => created < MaxClients
        /\ SetGlobals(startClient(Globals, lspEnabled, folders))
        /\ awaiting' = [awaiting EXCEPT ![c] = "none"]
        /\ UNCHANGED otherVars

\* The server of client c answered initialize: Starting -> Running.
ClientReady(c) ==
    /\ cstate[c] = "starting"
    /\ SetGlobals(SetClientState(Globals, c, "running"))
    /\ UNCHANGED <<awaiting, otherVars>>

\* The server of client c could not be started, or its connection closed.
ClientClosed(c) ==
    /\ cstate[c] \in {"starting", "running"}
    /\ SetGlobals(SetClientState(Globals, c, "stopped"))
    /\ UNCHANGED <<awaiting, otherVars>>

\* The shutdown of client c completed: its stop() promise fulfils.
ClientStopped(c) ==
    /\ cstate[c] = "stopping"
    /\ SetGlobals(SetClientState(Globals, c, "stopped"))
    /\ UNCHANGED <<awaiting, otherVars>>

InitAnalyzer ==
    /\ client = 0
    /\ isRunning = FALSE
    /\ runningVersion = 0
    /\ statusBarItem = NoItem
    /\ channel = FALSE
    /\ cstate = [c \in Clients |-> "uncreated"]
    /\ created = 0
    /\ awaiting = [c \in Clients |-> "none"]

NextAnalyzer ==
    \/ StartAnalyzer
    \/ StopAnalyzer
    \/ RestartAnalyzer
    \/ \E c \in Clients : StopAnalyzerResume(c)
    \/ \E c \in Clients : RestartAnalyzerResume(c)
    \/ \E c \in Clients : ClientReady(c)
    \/ \E c \in Clients : ClientClosed(c)
    \/ \E c \in Clients : ClientStopped(c)

\* ------------------------------------------------------------ evaluateHotCode
\* evaluateHotCode keeps everything in locals, and its calls share nothing
\* but the globals `client` and `isRunning`, which they only read: the model
\* follows one call at a time through its steps.
Requests == {"call"}

\* Texts are sequences of characters; Undefined is JavaScript's undefined.
Undefined == <<"undefined">>
Null == <<"null">>
None == [none |-> TRUE]

Whitespace == {" ", "\n", "\t", "\r"}

RECURSIVE TrimStart(_)
TrimStart(s) ==
    IF s # <<>> /\ Head(s) \in Whitespace THEN TrimStart(Tail(s)) ELSE s

RECURSIVE TrimEnd(_)
TrimEnd(s) ==
    IF s # <<>> /\ s[Len(s)] \in Whitespace THEN TrimEnd(SubSeq(s, 1, Len(s) - 1)) ELSE s

\* String.prototype.trim
Trim(s) == TrimEnd(TrimStart(s))

\* `x || null` for an optional string argument: undefined and '' give null.
OrNull(x) == IF x = Undefined \/ x = <<>> THEN Null ELSE x

\* `a || b` for strings
OrElse(a, b) == IF a = Undefined \/ a = <<>> THEN b ELSE a

\* What the callers pass: hot.evalToOutputPanel passes the code alone;
\* hot.evalSelection and hot.evalTopLevelForm pass the namespace of the
\* document (a string, or null when it declares none) and its URI.
CodeSet == {<<"1", "+", "1">>}
ContextSet ==
    { [namespace |-> Undefined, fileUri |-> Undefined],
      [namespace |-> Null, fileUri |-> <<"f">>],
      [namespace |-> <<":", ":", "a">>, fileUri |-> <<"f">>] }

\* The params of the hot/eval request.
EvalParams(a) ==
    [code |-> a.code, namespace |-> OrNull(a.namespace), fileUri |-> OrNull(a.fileUri)]

\* Structured answers of the server to hot/eval; a field the answer leaves
\* out reads as undefined.
Responses ==
    { [success |-> TRUE, result |-> <<"2">>, error |-> Undefined,
       namespace |-> <<":", ":", "a">>, stdout |-> <<"h", "i", "\n">>],
      [success |-> TRUE, result |-> <<"2">>, error |-> Undefined,
       namespace |-> Undefined, stdout |-> Undefined],
      [success |-> FALSE, result |-> Undefined, error |-> <<"E">>,
       namespace |-> Undefined, stdout |-> Undefined] }

\* LspResult with the captured stdout left out.
LspResult_NoStdout(resp) ==
    [success |-> resp.success, result |-> resp.result, error |-> resp.error,
     namespace |-> resp.namespace, stdout |-> Undefined]

\* The EvalResult built from the server's answer (lines 231-237).
LspResult(resp) ==
    [success |-> resp.success, result |-> resp.result, error |-> resp.error,
     namespace |-> resp.namespace, stdout |-> resp.stdout]

\* What the child process wrote before the callback.
StdoutSet == {<<>>, <<"2">>, <<"2", "\n">>, <<" ", "2", " ", "2", "\n">>}
StderrSet == {<<>>, <<"e", "\n">>}
\* error.message of a failed execFile
ErrorMessage == <<"C", "o", "m", "m", "a", "n", "d", " ", "f", "a", "i", "l", "e", "d">>

\* CliResult with stdout passed on as it is.
CliResult_NoTrim(out) ==
    IF out.error
    THEN [success |-> FALSE, result |-> <<>>, error |-> OrElse(out.stderr, ErrorMessage)]
    ELSE [success |-> TRUE, result |-> out.stdout]

\* The EvalResult built in the execFile callback (lines 255-268).
CliResult(out) ==
    IF out.error
    THEN [success |-> FALSE, result |-> <<>>, error |-> OrElse(out.stderr, ErrorMessage)]
    ELSE [success |-> TRUE, result |-> Trim(out.stdout)]

\* execFile(commandPath, ['eval', code], {timeout: 30000, cwd}, callback)
SpawnCli(r) ==
    /\ cliSpawns' = [cliSpawns EXCEPT ![r] = @ + 1]
    /\ cliProc' = [cliProc EXCEPT ![r] = "running"]

\* EvalDispatch with the request to the server and the CLI started together.
EvalDispatch_Race(r, a) ==
    IF client # 0 /\ isRunning
    THEN /\ epc' = [epc EXCEPT ![r] = "lsp"]
         /\ lspSent' = [lspSent EXCEPT ![r] = Append(@, [client |-> client, params |-> EvalParams(a)])]
         /\ lspInFlight' = [lspInFlight EXCEPT ![r] = TRUE]
         /\ SpawnCli(r)
    ELSE /\ epc' = [epc EXCEPT ![r] = "cli"]
         /\ SpawnCli(r)
         /\ UNCHANGED <<lspSent, lspInFlight>>

\* evaluateHotCode is called: with a client that is running the request goes
\* to the server, otherwise straight to the CLI.
EvalDispatch(r, a) ==
    IF client # 0 /\ isRunning
    THEN /\ epc' = [epc EXCEPT ![r] = "lsp"]
         /\ lspSent' = [lspSent EXCEPT ![r] = Append(@, [client |-> client, params |-> EvalParams(a)])]
         /\ lspInFlight' = [lspInFlight EXCEPT ![r] = TRUE]
         /\ UNCHANGED <<cliSpawns, cliProc>>
    ELSE /\ epc' = [epc EXCEPT ![r] = "cli"]
         /\ SpawnCli(r)
         /\ UNCHANGED <<lspSent, lspInFlight>>

EvalCall(r) ==
    \E code \in CodeSet, ctx \in ContextSet :
        LET a == [code |-> code, namespace |-> ctx.namespace, fileUri |-> ctx.fileUri] IN
        /\ epc[r] = "idle"
        /\ eargs' = [eargs EXCEPT ![r] = a]
        /\ EvalDispatch(r, a)
        /\ UNCHANGED <<lspFailed, cliOut, lspIn, eresult, resolves, evalOthers>>

\* sendRequest resolved with a structured answer: the call returns it.
LspRespond(r) ==
    \E resp \in Responses :
        /\ epc[r] = "lsp"
        /\ lspInFlight' = [lspInFlight EXCEPT ![r] = FALSE]
        /\ lspIn' = [lspIn EXCEPT ![r] = resp]
        /\ eresult' = [eresult EXCEPT ![r] = LspResult(resp)]
        /\ resolves' = [resolves EXCEPT ![r] = @ + 1]
        /\ epc' = [epc EXCEPT ![r] = "done"]
        /\ UNCHANGED <<eargs, lspSent, lspFailed, cliSpawns, cliProc, cliOut, evalOthers>>

\* The catch block (lines 238-243), then the fall through to the CLI.
LspCatch(r) ==
    /\ lspFailed' = [lspFailed EXCEPT ![r] = TRUE]
    /\ epc' = [epc EXCEPT ![r] = "cli"]
    /\ SpawnCli(r)

\* sendRequest rejected (the server answered with an error, the connection
\* closed, the client was stopped), or resolved with null, so that reading
\* result.success throws inside the try block.
LspFail(r) ==
    \E in \in {[rejected |-> TRUE], [null |-> TRUE]} :
        /\ epc[r] = "lsp"
        /\ lspInFlight' = [lspInFlight EXCEPT ![r] = FALSE]
        /\ lspIn' = [lspIn EXCEPT ![r] = in]
        /\ LspCatch(r)
        /\ UNCHANGED <<eargs, lspSent, cliOut, eresult, resolves, evalOthers>>

\* The connection of the client the request was sent on is closed: the
\* client stopped or its server process ended, and the language client
\* rejects the requests that are pending on it.
LspConnectionClosed(r) ==
    /\ epc[r] = "lsp"
    /\ cstate[lspSent[r][Len(lspSent[r])].client] = "stopped"
    /\ LspFail(r)

\* The execFile callback: it runs once, and resolves the promise.
CliCallback(r, out) ==
    /\ cliProc' = [cliProc EXCEPT ![r] = "ended"]
    /\ cliOut' = [cliOut EXCEPT ![r] = out]
    /\ eresult' = [eresult EXCEPT ![r] = CliResult(out)]
    /\ resolves' = [resolves EXCEPT ![r] = @ + 1]
    /\ epc' = [epc EXCEPT ![r] = "done"]
    /\ UNCHANGED <<eargs, lspSent, lspInFlight, lspFailed, cliSpawns, lspIn, evalOthers>>

\* The child exited with code 0.
CliExit(r) ==
    \E so \in StdoutSet :
        /\ epc[r] = "cli" /\ cliProc[r] = "running"
        /\ CliCallback(r, [error |-> FALSE, why |-> "exit", stdout |-> so, stderr |-> <<>>])

\* The child exited with another code (why = "exit"), or could not be
\* spawned (why = "spawn").
CliError(r) ==
    \E why \in {"exit", "spawn"}, se \in StderrSet :
        /\ epc[r] = "cli" /\ cliProc[r] = "running"
        /\ why = "spawn" => se = <<>>
        /\ CliCallback(r, [error |-> TRUE, why |-> why, stdout |-> <<>>, stderr |-> se])

\* CliTimeout when execFile is given no timeout: nothing ever fires.
CliTimeout_None(r) ==
    /\ FALSE
    /\ UNCHANGED vars

\* The 30 s timeout of execFile fired before the child exited: the child is
\* killed and the callback gets the error.
CliTimeout(r) ==
    \E se \in StderrSet :
        /\ epc[r] = "cli" /\ cliProc[r] = "running"
        /\ CliCallback(r, [error |-> TRUE, why |-> "timeout", stdout |-> <<>>, stderr |-> se])

\* The caller took the EvalResult; the slot is free for the next call.
EvalReturn(r) ==
    /\ epc[r] = "done"
    /\ epc' = [epc EXCEPT ![r] = "idle"]
    /\ eargs' = [eargs EXCEPT ![r] = None]
    /\ lspSent' = [lspSent EXCEPT ![r] = <<>>]
    /\ lspFailed' = [lspFailed EXCEPT ![r] = FALSE]
    /\ cliSpawns' = [cliSpawns EXCEPT ![r] = 0]
    /\ cliProc' = [cliProc EXCEPT ![r] = "none"]
    /\ cliOut' = [cliOut EXCEPT ![r] = None]
    /\ lspIn' = [lspIn EXCEPT ![r] = None]
    /\ eresult' = [eresult EXCEPT ![r] = None]
    /\ resolves' = [resolves EXCEPT ![r] = 0]
    /\ UNCHANGED <<lspInFlight, evalOthers>>

InitEval ==
    /\ epc = [r \in Requests |-> "idle"]
    /\ eargs = [r \in Requests |-> None]
    /\ lspSent = [r \in Requests |-> <<>>]
    /\ lspInFlight = [r \in Requests |-> FALSE]
    /\ lspFailed = [r \in Requests |-> FALSE]
    /\ cliSpawns = [r \in Requests |-> 0]
    /\ cliProc = [r \in Requests |-> "none"]
    /\ cliOut = [r \in Requests |-> None]
    /\ lspIn = [r \in Requests |-> None]
    /\ eresult = [r \in Requests |-> None]
    /\ resolves = [r \in Requests |-> 0]

NextEval ==
    \/ \E r \in Requests : EvalCall(r)
    \/ \E r \in Requests : LspRespond(r)
    \/ \E r \in Requests : LspFail(r)
    \/ \E r \in Requests : CliExit(r)
    \/ \E r \in Requests : CliError(r)
    \/ \E r \in Requests : CliTimeout(r)
    \/ \E r \in Requests : EvalReturn(r)

\* ----------------------------------------------------------- showInlineResult
\* Calls of showInlineResult in one behaviour.
MaxShows == 2

Shows == 1..MaxShows

\* `maxLen` of showInlineResult
maxLen == 80

\* How far the generated texts go beyond maxLen.
MaxOver == 2

\* n times the character ch
Fill(ch, n) == [i \in 1..n |-> ch]

\* One UTF-16 unit each: the ellipsis and the return arrow
Ellipsis == "ellipsis"
ReturnArrow == "return-arrow"

\* displayResult.replace(/\n/g, ' <return arrow> '), computed half by half
RECURSIVE ReplaceNewlines(_)
ReplaceNewlines(s) ==
    IF s = <<>> THEN <<>>
    ELSE IF Len(s) = 1
    THEN IF s[1] = "\n" THEN <<" ", ReturnArrow, " ">> ELSE s
    ELSE LET h == Len(s) \div 2
         IN  ReplaceNewlines(SubSeq(s, 1, h)) \o ReplaceNewlines(SubSeq(s, h + 1, Len(s)))

\* A string argument that is neither undefined, null nor ''
Truthy(x) == x # Undefined /\ x # Null /\ x # <<>>

\* Truncate without the ellipsis.
Truncate_NoEllipsis(s) ==
    IF Len(s) > maxLen THEN SubSeq(s, 1, maxLen) ELSE s

\* displayResult.substring(0, maxLen) + ellipsis, when longer than maxLen
Truncate(s) ==
    IF Len(s) > maxLen THEN Append(SubSeq(s, 1, maxLen), Ellipsis) ELSE s

\* Lines 284-288: stdout before the result
Compose(result, stdout) ==
    IF Truthy(stdout) /\ Trim(stdout) # <<>>
    THEN Trim(stdout) \o
         (IF Truthy(result) /\ result # <<"n", "u", "l", "l">>
          THEN <<" ", "=", ">", " ">> \o result ELSE <<>>)
    ELSE result

\* Lines 291-295
DisplayResult(result, stdout) == Truncate(ReplaceNewlines(Compose(result, stdout)))

\* Line 301: contentText
ContentText(result, stdout) ==
    IF Truthy(stdout) THEN DisplayResult(result, stdout)
    ELSE <<"=", ">", " ">> \o DisplayResult(result, stdout)

\* The result and stdout the eval commands pass on: short texts, texts
\* around maxLen, with and without line breaks.
Lengths == {0, 1} \cup ((maxLen - 2)..(maxLen + MaxOver))

ResultSet ==
    {Fill("a", n) : n \in Lengths}
    \cup {Fill("a", n) \o <<"\n", "b">> : n \in {1, maxLen - 3, maxLen - 1, maxLen + MaxOver}}
    \cup {<<"a", "\r", "\n", "b">>, <<"n", "u", "l", "l">>}

StdoutArgSet ==
    {Undefined, <<>>, <<" ">>, <<"h", "i", "\n">>, <<"h", "\n", "i">>}
    \cup {Fill("o", n) : n \in {maxLen - 2, maxLen + MaxOver}}

\* The documents of the workspace; the editor shows the first.
Documents == {"a.hot", "b.hot"}
EditorDocument == "a.hot"

\* getEvalDecorationType(): created on first use
getEvalDecorationType == IF evalResultDecorationType = 0 THEN 1 ELSE evalResultDecorationType

\* showInlineResult(editor, range, result, isError, stdout)
showInlineResult(result, isError, stdout) ==
    /\ shows < MaxShows
    /\ shows' = shows + 1
    /\ evalResultDecorationType' = getEvalDecorationType
    /\ decorations' = [by |-> shows', contentText |-> ContentText(result, stdout),
                       isError |-> isError, result |-> result, stdout |-> stdout]
    /\ listener' = [listener EXCEPT ![shows'] = TRUE]
    /\ timer' = [timer EXCEPT ![shows'] = TRUE]
    /\ UNCHANGED <<clears, inlineOthers>>

\* An eval command shows its result.
ShowInlineResult ==
    \E result \in ResultSet, isError \in BOOLEAN, stdout \in StdoutArgSet :
        showInlineResult(result, isError, stdout)

\* onDidChangeTextDocument for document d: every registered listener runs;
\* those of the editor's document clear the decorations and dispose themselves.
DocumentChanged(d) ==
    LET hit == {a \in Shows : listener[a] /\ d = EditorDocument} IN
    /\ decorations' = IF hit # {} THEN None ELSE decorations
    /\ clears' = [a \in Shows |-> IF a \in hit THEN clears[a] + 1 ELSE clears[a]]
    /\ listener' = [a \in Shows |-> listener[a] /\ a \notin hit]
    /\ UNCHANGED <<evalResultDecorationType, shows, timer, inlineOthers>>

\* The 10 s timer of call a fires: it clears the decorations and disposes
\* the listener.
TimerFired(a) ==
    /\ timer[a]
    /\ timer' = [timer EXCEPT ![a] = FALSE]
    /\ decorations' = None
    /\ clears' = [clears EXCEPT ![a] = @ + 1]
    /\ listener' = [listener EXCEPT ![a] = FALSE]
    /\ UNCHANGED <<evalResultDecorationType, shows, inlineOthers>>

\* command hot.clearEvalDecorations
ClearEvalDecorations ==
    /\ evalResultDecorationType # 0
    /\ decorations' = None
    /\ UNCHANGED <<evalResultDecorationType, shows, listener, timer, clears, inlineOthers>>

InitInline ==
    /\ evalResultDecorationType = 0
    /\ decorations = None
    /\ shows = 0
    /\ listener = [a \in Shows |-> FALSE]
    /\ timer = [a \in Shows |-> FALSE]
    /\ clears = [a \in Shows |-> 0]

NextInline ==
    \/ ShowInlineResult
    \/ \E d \in Documents : DocumentChanged(d)
    \/ \E a \in Shows : TimerFired(a)
    \/ ClearEvalDecorations

\* ---------------------------------------------------------- formatHotDocument
\* The milliseconds Date.now() goes through.
MaxTime == 1

\* The longest document text.
MaxText == 1

\* The two callers of formatHotDocument, each with at most one call in
\* progress: the formatting provider (format on save) and the command
\* hot.formatDocument.
Formats == {"provider", "command"}
Paths == 0..MaxTime
Texts == {Fill("x", n) : n \in 0..MaxText}

NoFile == <<"no-file">>

\* FormatEdits with the range taken from the formatted text.
FormatEdits_NewRange(content, formatted) ==
    IF formatted # content
    THEN <<[from |-> 0, to |-> Len(formatted), newText |-> formatted]>>
    ELSE <<>>

\* Lines 65-71 and 89-97: one edit over the whole original text when the
\* read-back content differs, none otherwise.
FormatEdits(content, formatted) ==
    IF formatted # content
    THEN <<[from |-> 0, to |-> Len(content), newText |-> formatted]>>
    ELSE <<>>

\* FormatCallback that treats every error alike, CHAR-AUDIT marker or not.
FormatCallback_IgnoresMarker(content, file, error, marker, readOk) ==
    IF error
    THEN [read |-> NoFile, unlinked |-> FALSE, edits |-> <<>>]
    ELSE IF file # NoFile /\ readOk
         THEN [read |-> file, unlinked |-> TRUE, edits |-> FormatEdits(content, file)]
         ELSE [read |-> NoFile, unlinked |-> TRUE, edits |-> <<>>]

\* The execFile callback of formatHotDocument (lines 56-103) for a call with
\* text `content` whose temporary file holds `file` (NoFile when it is gone):
\* what is read back, whether the file is unlinked, and the edits resolved.
\* readOk says whether readFileSync succeeds on an existing file.
FormatCallback(content, file, error, marker, readOk) ==
    LET exists == file # NoFile
        \* the catch block: unlinkSync in its own try, then resolve([])
        caught == [read |-> NoFile, unlinked |-> TRUE, edits |-> <<>>]
        \* readFileSync, unlinkSync, compare
        readBack == [read |-> file, unlinked |-> TRUE, edits |-> FormatEdits(content, file)]
        \* log and resolve([]) (lines 76-82)
        logged == [read |-> NoFile, unlinked |-> FALSE, edits |-> <<>>]
    IN  IF error
        THEN IF marker /\ exists
             THEN IF readOk THEN readBack ELSE caught
             ELSE logged
        ELSE IF exists /\ readOk THEN readBack ELSE caught

\* formatHotDocument(document) up to the return of execFile: the temporary
\* file is named by the clock and written with the document text.  When
\* writeFileSync throws, the executor throws and the promise is rejected.
FormatCall(f) ==
    \E content \in Texts, writeOk \in BOOLEAN :
        /\ fpc[f] = "idle"
        /\ fcontent' = [fcontent EXCEPT ![f] = content]
        /\ ftmp' = [ftmp EXCEPT ![f] = now]
        /\ IF writeOk
           THEN /\ files' = [files EXCEPT ![now] = content]
                /\ fpc' = [fpc EXCEPT ![f] = "running"]
                /\ UNCHANGED <<fexit, fsettled>>
           ELSE /\ fpc' = [fpc EXCEPT ![f] = "settled"]
                /\ fexit' = [fexit EXCEPT ![f] = [error |-> TRUE, why |-> "write",
                                                  marker |-> FALSE, readOk |-> FALSE]]
                /\ fsettled' = [fsettled EXCEPT ![f] = "rejected"]
                /\ UNCHANGED files
        /\ UNCHANGED <<now, fread, fedits, formatOthers>>

\* The `hot fmt` child of call f rewrites the file it was given.
FormatterWrites(f) ==
    \E text \in Texts :
        /\ fpc[f] = "running"
        /\ files[ftmp[f]] # NoFile
        /\ files' = [files EXCEPT ![ftmp[f]] = text]
        /\ UNCHANGED <<now, fpc, fcontent, ftmp, fexit, fread, fsettled, fedits, formatOthers>>

\* The execFile callback of call f: the child exited with code 0 (no error),
\* exited with another code (why = "exit"), could not be spawned (why =
\* "spawn") or was killed at the 10 s timeout (why = "timeout"); stderr holds
\* the CHAR-AUDIT marker or not.
FormatDone(f) ==
    \E error \in BOOLEAN, why \in {"exit", "spawn", "timeout"}, marker \in BOOLEAN,
       readOk \in BOOLEAN :
        /\ fpc[f] = "running"
        /\ ~error => (why = "exit" /\ ~marker)
        /\ why = "spawn" => ~marker
        \* readOk matters only where the callback reads the file
        /\ ~readOk => (files[ftmp[f]] # NoFile /\ (~error \/ marker))
        /\ LET out == FormatCallback(fcontent[f], files[ftmp[f]], error, marker, readOk) IN
           /\ files' = IF out.unlinked THEN [files EXCEPT ![ftmp[f]] = NoFile] ELSE files
           /\ fread' = [fread EXCEPT ![f] = out.read]
           /\ fedits' = [fedits EXCEPT ![f] = out.edits]
        /\ fexit' = [fexit EXCEPT ![f] = [error |-> error, why |-> why,
                                          marker |-> marker, readOk |-> readOk]]
        /\ fsettled' = [fsettled EXCEPT ![f] = "resolved"]
        /\ fpc' = [fpc EXCEPT ![f] = "settled"]
        /\ UNCHANGED <<now, fcontent, ftmp, formatOthers>>

\* The caller took the edits (or the rejection).
FormatReturn(f) ==
    /\ fpc[f] = "settled"
    /\ fpc' = [fpc EXCEPT ![f] = "idle"]
    /\ fcontent' = [fcontent EXCEPT ![f] = <<>>]
    /\ ftmp' = [ftmp EXCEPT ![f] = 0]
    /\ fexit' = [fexit EXCEPT ![f] = None]
    /\ fread' = [fread EXCEPT ![f] = NoFile]
    /\ fsettled' = [fsettled EXCEPT ![f] = "pending"]
    /\ fedits' = [fedits EXCEPT ![f] = <<>>]
    /\ UNCHANGED <<now, files, formatOthers>>

\* A millisecond passes.
Tick ==
    /\ now < MaxTime
    /\ now' = now + 1
    /\ UNCHANGED <<files, fpc, fcontent, ftmp, fexit, fread, fsettled, fedits, formatOthers>>

InitFormat ==
    /\ now = 0
    /\ files = [p \in Paths |-> NoFile]
    /\ fpc = [f \in Formats |-> "idle"]
    /\ fcontent = [f \in Formats |-> <<>>]
    /\ ftmp = [f \in Formats |-> 0]
    /\ fexit = [f \in Formats |-> None]
    /\ fread = [f \in Formats |-> NoFile]
    /\ fsettled = [f \in Formats |-> "pending"]
    /\ fedits = [f \in Formats |-> <<>>]

NextFormat ==
    \/ \E f \in Formats : FormatCall(f)
    \/ \E f \in Formats : FormatterWrites(f)
    \/ \E f \in Formats : FormatDone(f)
    \/ \E f \in Formats : FormatReturn(f)
    \/ Tick

\* ------------------------------------------------------------ getTopLevelForm
\* Lines a document may have.
MaxLines == 3

\* The declaration line `x fn (n: Int): Int {` of a function whose body
\* closes on a later line.
FnDeclaration ==
    <<"x", " ", "f", "n", " ", "(", "n", ":", " ", "I", "n", "t", ")", ":",
      " ", "I", "n", "t", " ", "{">>

\* The lines documents are written from: blank, a comment, an unindented
\* and an indented word, an opened, a closed and a one-line body, lone
\* parentheses, an indented body, a namespace declaration, a function
\* declaration with its indented body line, and an opening brace on a line
\* of its own.
LineSet ==
    { FnDeclaration,
      <<" ", "n">>,
      <<"{">>,
      <<>>,
      <<"/", "/">>,
      <<"a">>,
      <<" ", "a">>,
      <<"a", " ", "{">>,
      <<"}">>,
      <<"a", " ", "{", "}">>,
      <<"(">>,
      <<")">>,
      <<" ", "{", "}">>,
      <<":", ":", "a", " ", "n", "s">> }

\* A TextDocument has at least one line; the empty document has one empty line.
Docs == UNION {[1..n -> LineSet] : n \in 1..MaxLines}

\* The characters /^[a-zA-Z_:]/u accepts, of those the lines are written in.
WordStart == {"a", "n", "s", "x", "f", "t", "I", "_", ":"}

StartsWith(s, prefix) ==
    Len(s) >= Len(prefix) /\ SubSeq(s, 1, Len(prefix)) = prefix

EndsWith(s, suffix) ==
    Len(s) >= Len(suffix) /\ SubSeq(s, Len(s) - Len(suffix) + 1, Len(s)) = suffix

\* document.lineAt(i).text
LineAt(doc, i) == doc[i + 1]

\* text.trim() === '' || text.trim().startsWith('//')
IsBlankOrComment(text) == Trim(text) = <<>> \/ StartsWith(Trim(text), <<"/", "/">>)

\* IsTopLevelStart that accepts any first character.
IsTopLevelStart_AnyChar(text) == text # <<>>

\* /^[a-zA-Z_:]/u.test(text)
IsTopLevelStart(text) == text # <<>> /\ text[1] \in WordStart

\* The first loop (lines 409-423): upwards from line i, the first line that
\* is neither blank nor a comment and starts a top-level form; startLine
\* stays at the cursor line when there is none.
RECURSIVE FindStart(_, _, _)
FindStart(doc, i, startLine) ==
    IF i < 0 THEN startLine
    ELSE IF IsBlankOrComment(LineAt(doc, i)) THEN FindStart(doc, i - 1, startLine)
    ELSE IF IsTopLevelStart(LineAt(doc, i)) THEN i
    ELSE FindStart(doc, i - 1, startLine)

\* How often ch occurs in text.
Count(text, ch) == Cardinality({k \in 1..Len(text) : text[k] = ch})

\* NextUnitStarts without the test that the line lies below the start line.
NextUnitStarts_AnyLine(i, startLine, text) ==
    IsTopLevelStart(text) /\ Trim(text) # <<>> /\ ~StartsWith(Trim(text), <<"/", "/">>)

\* The test of line 449: line i, below the start line, begins the next
\* top-level definition.
NextUnitStarts(i, startLine, text) ==
    i > startLine /\ IsTopLevelStart(text) /\ Trim(text) # <<>>
                  /\ ~StartsWith(Trim(text), <<"/", "/">>)

\* BodyClosed that does not look at the brace count.
BodyClosed_IgnoresBraces(foundBody, braceCount, parenCount) ==
    foundBody /\ parenCount <= 0

\* The test of line 444: a body was found and the braces are balanced.
BodyClosed(foundBody, braceCount, parenCount) ==
    foundBody /\ braceCount = 0 /\ parenCount <= 0

\* The second loop (lines 430-453), from line i on, with the counters as they
\* stand before line i; the value is endLine.
RECURSIVE FindEnd(_, _, _, _, _, _, _)
FindEnd(doc, i, startLine, endLine, braceCount, parenCount, foundBody) ==
    IF i >= Len(doc) THEN endLine
    ELSE LET text  == LineAt(doc, i)
             brace == braceCount + Count(text, "{") - Count(text, "}")
             paren == parenCount + Count(text, "(") - Count(text, ")")
             found == foundBody \/ Count(text, "{") > 0
         IN  IF BodyClosed(found, brace, paren) THEN i
             ELSE IF NextUnitStarts(i, startLine, text) THEN i - 1
             ELSE FindEnd(doc, i + 1, startLine, i, brace, paren, found)

\* document.getText(range) for a range of whole lines
RECURSIVE GetText(_, _, _)
GetText(doc, from, to) ==
    IF from > to THEN <<>>
    ELSE IF from = to THEN LineAt(doc, from)
    ELSE LineAt(doc, from) \o <<"\n">> \o GetText(doc, from + 1, to)

\* text.match(/^::[^\s]+ ns$/)
MatchesNsDeclaration(text) ==
    /\ StartsWith(text, <<":", ":">>)
    /\ EndsWith(text, <<" ", "n", "s">>)
    /\ Len(text) >= 6
    /\ \A k \in 3..(Len(text) - 3) : text[k] \notin Whitespace

\* What a run that throws leaves behind.
Raised == [raised |-> TRUE]

\* The null getTopLevelForm returns.
NoForm == [null |-> TRUE]

\* getTopLevelForm has not run yet.
NotRun == [notRun |-> TRUE]

\* getTopLevelForm(editor): null for a namespace declaration, else the
\* trimmed text with the range of whole lines it was read from.
getTopLevelForm(doc, line) ==
    LET startLine == FindStart(doc, line, line)
        endLine   == FindEnd(doc, startLine, startLine, line, 0, 0, FALSE)
    IN  IF endLine \notin 0..(Len(doc) - 1) \/ startLine \notin 0..(Len(doc) - 1)
        THEN Raised
        ELSE LET text == Trim(GetText(doc, startLine, endLine))
             IN  IF EndsWith(text, <<" ", "n", "s">>) \/ MatchesNsDeclaration(text)
                 THEN NoForm
                 ELSE [text |-> text, startLine |-> startLine, endLine |-> endLine]

\* The lines of a text: text.split('\n')
RECURSIVE SplitLines(_)
SplitLines(text) ==
    IF \A k \in 1..Len(text) : text[k] # "\n" THEN <<text>>
    ELSE LET k == CHOOSE j \in 1..Len(text) :
                      text[j] = "\n" /\ \A h \in 1..(j - 1) : text[h] # "\n"
         IN  <<SubSeq(text, 1, k - 1)>> \o SplitLines(SubSeq(text, k + 1, Len(text)))

\* getTopLevelForm runs on a document with the cursor on one of its lines;
\* a behaviour follows one document and the text returned for it.
GetTopLevelFormCall ==
    /\ form = NotRun
    /\ \E doc \in Docs :
          \E line \in 0..(Len(doc) - 1) :
              /\ document' = doc
              /\ position' = line
              /\ form' = getTopLevelForm(doc, line)
              /\ standalone' = None
              /\ UNCHANGED formOthers

\* The text a run returned is opened as a document of its own, and
\* getTopLevelForm runs on it with the cursor on one of its lines.
RerunOnResult ==
    /\ form \notin {NotRun, NoForm, Raised}
    /\ LET doc == SplitLines(form.text) IN
        \E line \in 0..(Len(doc) - 1) :
            /\ document' = doc
            /\ position' = line
            /\ form' = getTopLevelForm(doc, line)
            /\ standalone' = [text |-> form.text]
            /\ UNCHANGED formOthers

InitForm ==
    /\ document = <<<<>>>>
    /\ position = 0
    /\ form = NotRun
    /\ standalone = None

NextForm ==
    \/ GetTopLevelFormCall
    \/ RerunOnResult

\* -------------------------------------------------- activation and update check
\* Activations (extension hosts) that share the persisted globalState.
MaxActivations == 2

Activations == 1..MaxActivations

\* The activation whose analyzer, status bar and other resources the model follows.
ThisHost == 1

\* VERSION_CHECK_INTERVAL_MS, 24 hours, in half days
VERSION_CHECK_INTERVAL_MS == 2

\* Half days the clock goes on after the first activation.
MaxClock == 2

\* text.split(/[-.]/) and the like: the pieces of text between separators
RECURSIVE SplitAt(_, _)
SplitAt(text, seps) ==
    IF \A k \in 1..Len(text) : text[k] \notin seps THEN <<text>>
    ELSE LET k == CHOOSE j \in 1..Len(text) :
                      text[j] \in seps /\ \A h \in 1..(j - 1) : text[h] \notin seps
         IN  <<SubSeq(text, 1, k - 1)>> \o SplitAt(SubSeq(text, k + 1, Len(text)), seps)

Digits == {"0", "1", "2", "3", "4", "5", "6", "7", "8", "9"}

DigitValue(d) ==
    CASE d = "0" -> 0 [] d = "1" -> 1 [] d = "2" -> 2 [] d = "3" -> 3 [] d = "4" -> 4
      [] d = "5" -> 5 [] d = "6" -> 6 [] d = "7" -> 7 [] d = "8" -> 8 [] d = "9" -> 9

\* parseInt(x, 10) || 0 for a piece without sign or leading blanks: the
\* number its leading digits spell, and 0 (for NaN) when it has none.
RECURSIVE ParseIntOrZero(_, _)
ParseIntOrZero(x, acc) ==
    IF x = <<>> \/ Head(x) \notin Digits THEN acc
    ELSE ParseIntOrZero(Tail(x), 10 * acc + DigitValue(Head(x)))

\* a.replace(/^v/, '').split(/[-.]/).map(x => parseInt(x, 10) || 0)
VersionParts(a) ==
    LET stripped == IF a # <<>> /\ Head(a) = "v" THEN Tail(a) ELSE a
        pieces   == SplitAt(stripped, {"-", "."})
    IN  [i \in 1..Len(pieces) |-> ParseIntOrZero(pieces[i], 0)]

\* The loop of compareSemver from component i on.
RECURSIVE CompareFrom(_, _, _, _)
CompareFrom(pa, pb, i, len) ==
    IF i > len THEN 0
    ELSE LET na == IF i <= Len(pa) THEN pa[i] ELSE 0
             nb == IF i <= Len(pb) THEN pb[i] ELSE 0
         IN  IF na < nb THEN -1
             ELSE IF na > nb THEN 1
             ELSE CompareFrom(pa, pb, i + 1, len)

\* compareSemver that compares only the components both versions have.
compareSemver_CommonLength(a, b) ==
    LET pa == VersionParts(a)
        pb == VersionParts(b)
    IN  CompareFrom(pa, pb, 1, IF Len(pa) < Len(pb) THEN Len(pa) ELSE Len(pb))

\* compareSemver(a, b) (lines 932-943)
compareSemver(a, b) ==
    LET pa == VersionParts(a)
        pb == VersionParts(b)
    IN  CompareFrom(pa, pb, 1, IF Len(pa) > Len(pb) THEN Len(pa) ELSE Len(pb))

\* Components a version string is written with.
MaxParts == 3

\* The numbers the components are: one and two digits.
PartValues == {0, 9, 10}

\* A number in decimal digits.
RECURSIVE Decimal(_)
Decimal(n) ==
    LET d == CHOOSE c \in Digits : DigitValue(c) = n % 10
    IN  IF n < 10 THEN <<d>> ELSE Append(Decimal(n \div 10), d)

\* The components joined with dots.
RECURSIVE Dotted(_)
Dotted(parts) ==
    IF Len(parts) = 1 THEN Decimal(parts[1])
    ELSE Decimal(parts[1]) \o <<".">> \o Dotted(Tail(parts))

\* The version strings compareSemver is called with, each with the
\* components it was written from: with and without a leading `v`, and the
\* two versions 0.3.9 and 0.4.0.
Versions ==
    LET tuples == UNION {[1..n -> PartValues] : n \in 1..MaxParts}
                      \cup {<<0, 3, 9>>, <<0, 4, 0>>}
    IN  {[text |-> Dotted(t), parts |-> t] : t \in tuples}
        \cup {[text |-> <<"v">> \o Dotted(t), parts |-> t] : t \in tuples}

\* compareSemver has not been called.
NotCompared == [notCompared |-> TRUE]

\* compareSemver(a, b) and compareSemver(b, a) are called for two versions.
CompareSemverCall ==
    /\ comparison = NotCompared
    /\ \E a \in Versions, b \in Versions :
          comparison' = [a |-> a, b |-> b,
                         result  |-> compareSemver(a.text, b.text),
                         reverse |-> compareSemver(b.text, a.text)]
    /\ UNCHANGED <<analyzerVars, evalVars, inlineVars, formatVars, formVars,
                   session, activation, replTerminal, evalOutputChannel, installedVersion,
                   vproc, upc, clock, hotLastUpdateCheck, requestLog, notifyLog, replVars>>

\* What `hot version` prints.
VersionOutputs ==
    { <<"h", "o", "t", " ", "0", ".", "3", ".", "9", " ", "(", "a", ")", "\n">>,
      <<"h", "o", "t", " ", "0", ".", "4", ".", "0", "\n">>,
      <<"0", ".", "4", ".", "0", "\n">> }

\* (stdout || '').match(/^hot\s+(\S+)/): the first group, or Null without a match
ParseVersionOutput(stdout) ==
    IF ~StartsWith(stdout, <<"h", "o", "t">>) THEN Null
    ELSE LET rest  == SubSeq(stdout, 4, Len(stdout))
             after == TrimStart(rest)
             word  == Head(SplitAt(after, Whitespace))
         IN  IF Len(after) = Len(rest) \/ word = <<>> THEN Null ELSE word

\* What the version endpoint answers with.
LatestData ==
    { <<"0", ".", "4", ".", "0", "\n">>,
      <<"0", ".", "3", ".", "9">>,
      <<"\n">> }

\* The globals SetGlobals writes.
globalVars == <<client, isRunning, runningVersion, statusBarItem, channel, cstate, created>>

\* checkForUpdates() (lines 949-966): what becomes of the check.
checkForUpdates(enabled) ==
    IF ~enabled THEN "skipped"
    ELSE IF clock - hotLastUpdateCheck < VERSION_CHECK_INTERVAL_MS THEN "skipped"
    ELSE "waiting"

\* activate(context) of activation a: fetchInstalledVersion(),
\* checkForUpdates(), the commands are registered, the status bar item is
\* made and startClient() is called.  Of the activations other than
\* ThisHost only the update check is followed.
Activate(a) ==
    \E checkEnabled \in BOOLEAN, lspEnabled \in BOOLEAN, folders \in Folders :
        /\ upc[a] = "none"
        /\ vproc' = [vproc EXCEPT ![a] = "running"]
        /\ upc' = [upc EXCEPT ![a] = checkForUpdates(checkEnabled)]
        /\ IF a = ThisHost
           THEN /\ session = "loaded"
                /\ session' = "active"
                /\ activation' = [lspEnabled |-> lspEnabled, folders |-> folders]
                /\ LET g == updateStatus(Globals, "circle-slash", "hot.openSettings") IN
                   /\ WouldCreate(g, lspEnabled, folders) => created < MaxClients
                   /\ SetGlobals(startClient(g, lspEnabled, folders))
           ELSE /\ lspEnabled /\ folders = 1
                /\ UNCHANGED <<globalVars, session, activation>>
        /\ UNCHANGED <<awaiting, replTerminal, evalOutputChannel, installedVersion, clock,
                       hotLastUpdateCheck, requestLog, notifyLog,
                       evalVars, inlineVars, formatVars, formVars, replVars, semverVars>>

\* The execFile callback of fetchInstalledVersion (lines 914-925).
VersionFetched(a) ==
    \E error \in BOOLEAN, stdout \in VersionOutputs :
        /\ vproc[a] = "running"
        /\ error => stdout = <<"0", ".", "4", ".", "0", "\n">>
        /\ vproc' = [vproc EXCEPT ![a] = "ended"]
        /\ LET v == IF error THEN Null ELSE ParseVersionOutput(stdout) IN
           IF v = Null
           THEN UNCHANGED <<installedVersion, globalVars>>
           ELSE /\ installedVersion' = [installedVersion EXCEPT ![a] = v]
                /\ IF a = ThisHost
                   THEN SetGlobals(updateStatus(Globals,
                            IF statusBarItem = NoItem THEN "circle-slash" ELSE statusBarItem.text,
                            IF statusBarItem = NoItem THEN "hot.openSettings"
                            ELSE statusBarItem.command))
                   ELSE UNCHANGED globalVars
        /\ UNCHANGED <<awaiting, session, activation, replTerminal, evalOutputChannel, upc,
                       clock, hotLastUpdateCheck, requestLog, notifyLog,
                       evalVars, inlineVars, formatVars, formVars, replVars, semverVars>>

\* The timer callback waitForVersion (lines 956-962): it re-arms itself
\* while installedVersion is not set, else it runs doVersionCheck(), which
\* sends the request.
WaitForVersion(a) ==
    /\ upc[a] = "waiting"
    /\ IF installedVersion[a] = Null
       THEN UNCHANGED <<upc, requestLog>>
       ELSE /\ upc' = [upc EXCEPT ![a] = "requesting"]
            /\ requestLog' = Append(requestLog, [by |-> a, at |-> clock])
    /\ UNCHANGED <<analyzerVars, session, activation, replTerminal, evalOutputChannel,
                   installedVersion, vproc, clock, hotLastUpdateCheck, notifyLog,
                   evalVars, inlineVars, formatVars, formVars, replVars, semverVars>>

\* The 'end' handler of the response (lines 972-987).
ResponseEnd(a) ==
    \E data \in LatestData :
        /\ upc[a] = "requesting"
        /\ upc' = [upc EXCEPT ![a] = "done"]
        /\ hotLastUpdateCheck' = clock
        /\ LET latestVersion == Trim(data) IN
           IF latestVersion = <<>> \/ installedVersion[a] = Null
           THEN UNCHANGED notifyLog
           ELSE IF compareSemver(installedVersion[a], latestVersion) < 0
           THEN notifyLog' = Append(notifyLog, [by |-> a, at |-> clock])
           ELSE UNCHANGED notifyLog
        /\ UNCHANGED <<analyzerVars, session, activation, replTerminal, evalOutputChannel,
                       installedVersion, vproc, clock, requestLog,
                       evalVars, inlineVars, formatVars, formVars, replVars, semverVars>>

\* The 'error' handler of the request (line 988).
RequestError(a) ==
    /\ upc[a] = "requesting"
    /\ upc' = [upc EXCEPT ![a] = "done"]
    /\ UNCHANGED <<analyzerVars, session, activation, replTerminal, evalOutputChannel,
                   installedVersion, vproc, clock, hotLastUpdateCheck, requestLog, notifyLog,
                   evalVars, inlineVars, formatVars, formVars, replVars, semverVars>>

\* Half a day passes.
TickClock ==
    /\ clock < VERSION_CHECK_INTERVAL_MS + MaxClock
    /\ clock' = clock + 1
    /\ UNCHANGED <<analyzerVars, session, activation, replTerminal, evalOutputChannel,
                   installedVersion, vproc, upc, hotLastUpdateCheck, requestLog, notifyLog,
                   evalVars, inlineVars, formatVars, formVars, replVars, semverVars>>

\* Calls of sendToRepl that are followed.
MaxSends == 3

\* The text `${commandPath} repl` startRepl sends to a new terminal, among
\* the numbers that name the texts of sendToRepl.
ReplCommand == 0

\* REPL terminals that are created.
MaxTerminals == 2

\* The terminals created so far: each was given the repl command.
TerminalsCreated == Len(SelectSeq(replSent, LAMBDA x : x = ReplCommand))

\* command hot.startRepl: startRepl() (lines 115-146): an existing terminal
\* is shown; otherwise one is created and given the repl command.
StartRepl ==
    /\ session = "active"
    /\ replTerminal = 0 => TerminalsCreated < MaxTerminals
    /\ replTerminal' = 1
    /\ replSent' = IF replTerminal # 0 THEN replSent ELSE Append(replSent, ReplCommand)
    /\ UNCHANGED <<analyzerVars, session, activation, evalOutputChannel, installedVersion,
                   vproc, upc, clock, hotLastUpdateCheck, requestLog, notifyLog,
                   evalVars, inlineVars, formatVars, formVars, replCalls, replTimers, semverVars>>

\* sendToRepl(text) (lines 152-165), called by hot.sendToRepl and
\* hot.sendFileToRepl: without a terminal startRepl() runs and the text
\* waits for a 1500 ms timer; with one the text is sent at once.
SendToRepl ==
    /\ session = "active"
    /\ replCalls < MaxSends
    /\ replTerminal = 0 => TerminalsCreated < MaxTerminals
    /\ replCalls' = replCalls + 1
    /\ IF replTerminal = 0
       THEN /\ replTerminal' = 1
            /\ replSent' = Append(replSent, ReplCommand)
            /\ replTimers' = replTimers \cup {replCalls'}
       ELSE /\ replSent' = Append(replSent, replCalls')
            /\ UNCHANGED <<replTerminal, replTimers>>
    /\ UNCHANGED <<analyzerVars, session, activation, evalOutputChannel, installedVersion,
                   vproc, upc, clock, hotLastUpdateCheck, requestLog, notifyLog,
                   evalVars, inlineVars, formatVars, formVars, semverVars>>

\* The timer callback of sendToRepl (lines 156-160) for call k; timers of
\* equal delay run in the order they were set.
ReplTimerFired(k) ==
    /\ k \in replTimers
    /\ \A j \in replTimers : k <= j
    /\ replTimers' = replTimers \ {k}
    /\ replSent' = IF replTerminal # 0 THEN Append(replSent, k) ELSE replSent
    /\ UNCHANGED <<analyzerVars, session, activation, replTerminal, evalOutputChannel,
                   installedVersion, vproc, upc, clock, hotLastUpdateCheck, requestLog,
                   notifyLog, evalVars, inlineVars, formatVars, formVars, replCalls, semverVars>>

\* The onDidCloseTerminal listener of startRepl (lines 138-143), for the
\* REPL terminal being closed.
ReplTerminalClosed ==
    /\ replTerminal # 0
    /\ replTerminal' = 0
    /\ UNCHANGED <<analyzerVars, session, activation, evalOutputChannel, installedVersion,
                   vproc, upc, clock, hotLastUpdateCheck, requestLog, notifyLog,
                   evalVars, inlineVars, formatVars, formVars, replVars, semverVars>>

\* command hot.showEvalOutput: getEvalOutputChannel().show(true)
ShowEvalOutput ==
    /\ session = "active"
    /\ evalOutputChannel' = TRUE
    /\ UNCHANGED <<analyzerVars, session, activation, replTerminal, installedVersion,
                   vproc, upc, clock, hotLastUpdateCheck, requestLog, notifyLog,
                   evalVars, inlineVars, formatVars, formVars, replVars, semverVars>>

\* Lines 859-874 of deactivate: the status bar item, the REPL terminal, the
\* decoration type (and with it its decorations) and the eval output channel
\* are disposed and their globals set to null.
DisposeAll(g) ==
    /\ SetGlobals([g EXCEPT !.statusBarItem = NoItem])
    /\ replTerminal' = 0
    /\ evalResultDecorationType' = 0
    /\ decorations' = IF evalResultDecorationType # 0 THEN None ELSE decorations
    /\ evalOutputChannel' = FALSE

\* deactivate(), up to its await; without a client there is no await and it
\* runs to its end.
Deactivate ==
    /\ session = "active"
    /\ IF client # 0
       THEN LET c  == client
                g1 == [Globals EXCEPT !.client = 0, !.isRunning = FALSE]
                g2 == updateStatus(g1, "sync~spin", "hot.startAnalyzer")
            IN  /\ \E g3 \in StopOutcomes(g2, c) : SetGlobals(g3)
                /\ awaiting' = [awaiting EXCEPT ![c] = "deactivate"]
                /\ session' = "deactivating"
                /\ UNCHANGED <<replTerminal, evalOutputChannel, evalResultDecorationType,
                               decorations>>
       ELSE /\ DisposeAll(Globals)
            /\ session' = "deactivated"
            /\ UNCHANGED awaiting
    /\ UNCHANGED <<activation, installedVersion, vproc, upc, clock, hotLastUpdateCheck,
                   requestLog, notifyLog, shows, listener, timer, clears,
                   evalVars, formatVars, formVars, replVars, semverVars>>

\* deactivate(), after its await
DeactivateResume(c) ==
    /\ awaiting[c] = "deactivate"
    /\ cstate[c] # "stopping"
    /\ awaiting' = [awaiting EXCEPT ![c] = "none"]
    /\ DisposeAll(Globals)
    /\ session' = "deactivated"
    /\ UNCHANGED <<activation, installedVersion, vproc, upc, clock, hotLastUpdateCheck,
                   requestLog, notifyLog, shows, listener, timer, clears,
                   evalVars, formatVars, formVars, replVars, semverVars>>

InitSession ==
    /\ session = "loaded"
    /\ activation = None
    /\ replTerminal = 0
    /\ evalOutputChannel = FALSE
    /\ installedVersion = [a \in Activations |-> Null]
    /\ vproc = [a \in Activations |-> "none"]
    /\ upc = [a \in Activations |-> "none"]
    /\ clock = VERSION_CHECK_INTERVAL_MS
    /\ hotLastUpdateCheck = 0
    /\ requestLog = <<>>
    /\ notifyLog = <<>>
    /\ replCalls = 0
    /\ replTimers = {}
    /\ replSent = <<>>
    /\ comparison = NotCompared

\* The update check of every activation.
NextUpdate ==
    \/ \E a \in Activations : Activate(a)
    \/ \E a \in Activations : VersionFetched(a)
    \/ \E a \in Activations : WaitForVersion(a)
    \/ \E a \in Activations : ResponseEnd(a)
    \/ \E a \in Activations : RequestError(a)
    \/ TickClock

\* An eval command shows the result `a` of a successful evaluation.
ShowOneResult ==
    /\ session = "active"
    /\ showInlineResult(<<"a">>, FALSE, Undefined)

\* This extension host from activate() to deactivate() with the analyzer
\* started and stopped in between: commands run while the extension is
\* active, callbacks whenever they are due.
NextSession ==
    \/ Activate(ThisHost)
    \/ VersionFetched(ThisHost)
    \/ session = "active" /\ StartAnalyzer
    \/ session = "active" /\ StopAnalyzer
    \/ \E c \in Clients : StopAnalyzerResume(c)
    \/ \E c \in Clients : ClientReady(c)
    \/ \E c \in Clients : ClientClosed(c)
    \/ \E c \in Clients : ClientStopped(c)
    \/ Deactivate
    \/ \E c \in Clients : DeactivateResume(c)

\* This extension host from activate() to deactivate() with the resources
\* it creates on the way, and the callbacks that are still pending when it
\* is deactivated: the `hot version` child, the state events of the client
\* activate() started, the timers of the inline results.
NextRelease ==
    \/ Activate(ThisHost)
    \/ VersionFetched(ThisHost)
    \/ \E c \in Clients : ClientReady(c)
    \/ \E c \in Clients : ClientClosed(c)
    \/ \E c \in Clients : ClientStopped(c)
    \/ StartRepl
    \/ ReplTerminalClosed
    \/ ShowEvalOutput
    \/ ShowOneResult
    \/ \E a \in Shows : TimerFired(a)
    \/ Deactivate
    \/ \E c \in Clients : DeactivateResume(c)

\* The REPL terminal of one extension host: started, sent to, closed by the
\* user, and the pending timers of sendToRepl.
NextRepl ==
    \/ Activate(ThisHost)
    \/ StartRepl
    \/ SendToRepl
    \/ \E k \in 1..MaxSends : ReplTimerFired(k)
    \/ ReplTerminalClosed
    \/ Deactivate
    \/ \E c \in Clients : DeactivateResume(c)

\* ---------------------------------------------------------- specifications
Init ==
    InitAnalyzer /\ InitEval /\ InitInline /\ InitFormat /\ InitForm /\ InitSession

\* The analyzer commands and the client's state changes.
Next == NextAnalyzer

Spec == Init /\ [][Next]_vars

\* evaluateHotCode, with the analyzer started and stopped beside it.
NextWithEval ==
    \/ StartAnalyzer
    \/ StopAnalyzer
    \/ \E c \in Clients : StopAnalyzerResume(c)
    \/ \E c \in Clients : ClientReady(c)
    \/ \E c \in Clients : ClientClosed(c)
    \/ \E c \in Clients : ClientStopped(c)
    \/ NextEval

SpecEval == Init /\ [][NextWithEval]_vars

\* The same, with the scheduling the event loop guarantees: the 30 s timer
\* of a child that is still running fires.  Nothing obliges the server to
\* answer or the child to exit by itself.
SpecEvalLive == SpecEval /\ \A r \in Requests : WF_vars(CliTimeout(r))

\* The same, and a client that is stopping does stop, and a request pending
\* on a connection that is closed is rejected.  A server that stays up is
\* still not obliged to answer: sendRequest is given no timeout and no
\* cancellation token.
SpecEvalServed ==
    /\ SpecEvalLive
    /\ \A c \in Clients : WF_vars(ClientStopped(c))
    /\ \A r \in Requests : WF_vars(LspConnectionClosed(r))

\* showInlineResult and the triggers that clear its annotation.
SpecInline == Init /\ [][NextInline]_vars

\* formatHotDocument, the formatter child and the temporary directory.
SpecFormat == Init /\ [][NextFormat]_vars

\* getTopLevelForm on every document, and again on the text it returned.
SpecForm == Init /\ [][NextForm]_vars

\* The update check across activations.
SpecUpdate == Init /\ [][NextUpdate]_vars

\* The same, with the scheduling the event loop guarantees: the callback of
\* the `hot version` child runs (the child exits or is killed at its 5 s
\* timeout), and the timer of waitForVersion fires.
SpecUpdateLive ==
    /\ SpecUpdate
    /\ \A a \in Activations : WF_vars(VersionFetched(a))
    /\ \A a \in Activations : WF_vars(WaitForVersion(a))

\* One extension host from activation to deactivation.
SpecSession == Init /\ [][NextSession]_vars

\* One extension host and the resources deactivate() releases.
SpecRelease == Init /\ [][NextRelease]_vars

\* One extension host and its REPL terminal.
SpecRepl == Init /\ [][NextRepl]_vars

\* compareSemver on every pair of versions.
SpecSemver == Init /\ [][CompareSemverCall]_vars

\* ------------------------------------------------------------------ claims
ActiveClients == {c \in Clients : cstate[c] \in {"initial", "starting", "running", "stopping"}}

\* C1: at most one language client is active (created and not yet fully
\* stopped) at any time, for every interleaving of the start, stop and
\* restart commands.
C1_AtMostOneActiveClient == Cardinality(ActiveClients) <= 1

\* C2: in every call of evaluateHotCode the CLI is spawned at most once, and
\* exactly once when the server request failed, only after that failure was
\* observed; the server request and the CLI child of one call are never in
\* flight together; the call produces exactly one EvalResult.
C2_SingleFallback ==
    \A r \in Requests :
        /\ cliSpawns[r] <= 1
        /\ Len(lspSent[r]) <= 1
        /\ ~(lspInFlight[r] /\ cliProc[r] = "running")
        /\ (cliSpawns[r] = 1 /\ Len(lspSent[r]) = 1) => (lspFailed[r] /\ ~lspInFlight[r])
        /\ lspFailed[r] => cliSpawns[r] = 1
        /\ resolves[r] <= 1
        /\ epc[r] = "done" <=> (resolves[r] = 1 /\ eresult[r] # None)

C2_Witness ==
    \E r \in Requests :
        epc[r] = "done" /\ lspFailed[r] /\ cliSpawns[r] = 1 /\ Len(lspSent[r]) = 1

\* t is s without its leading and trailing whitespace.
IsTrimOf(t, s) ==
    /\ t = <<>> \/ (t[1] \notin Whitespace /\ t[Len(t)] \notin Whitespace)
    /\ \E i \in 0..Len(s) :
          /\ i + Len(t) <= Len(s)
          /\ \A k \in 1..Len(s) :
                IF k > i /\ k <= i + Len(t) THEN s[k] = t[k - i] ELSE s[k] \in Whitespace

C3_CliState ==
    \A r \in Requests :
        (epc[r] = "done" /\ cliSpawns[r] > 0) =>
            /\ resolves[r] = 1
            /\ ~cliOut[r].error =>
                  /\ DOMAIN eresult[r] = {"success", "result"}
                  /\ eresult[r].success = TRUE
                  /\ IsTrimOf(eresult[r].result, cliOut[r].stdout)
                  /\ cliOut[r].stdout = <<"2">> => eresult[r].result = <<"2">>
            /\ cliOut[r].error =>
                  /\ DOMAIN eresult[r] = {"success", "result", "error"}
                  /\ eresult[r].success = FALSE
                  /\ eresult[r].result = <<>>
                  /\ eresult[r].error =
                        IF cliOut[r].stderr # <<>> THEN cliOut[r].stderr ELSE ErrorMessage

C3_NoRetry ==
    \A r \in Requests :
        (epc[r] = "done" /\ cliSpawns[r] > 0 /\ epc'[r] # "idle") =>
            /\ cliSpawns'[r] = cliSpawns[r]
            /\ lspSent'[r] = lspSent[r]
            /\ eresult'[r] = eresult[r]

\* C3: on the CLI path evaluateHotCode resolves and never rejects: with
\* {success: true, result: trimmed stdout} when the child exits with code 0
\* (stdout `2` gives "2"), otherwise with {success: false, result: '',
\* error: stderr if non-empty, else the error message}; after the CLI
\* callback no further server or CLI attempt is made for that call.
C3_CliPath == []C3_CliState /\ [][C3_NoRetry]_vars

C3_Witness ==
    \E r \in Requests :
        /\ epc[r] = "done" /\ cliSpawns[r] = 1
        /\ cliOut[r].error /\ cliOut[r].stderr = <<>>
        /\ eresult[r].error = ErrorMessage

C4_State ==
    \A r \in Requests :
        /\ epc[r] = "lsp" =>
              /\ Len(lspSent[r]) = 1
              /\ lspSent[r][1].params.code = eargs[r].code
              /\ lspSent[r][1].params.namespace =
                    IF eargs[r].namespace \in {Undefined, Null, <<>>}
                    THEN Null ELSE eargs[r].namespace
              /\ lspSent[r][1].params.fileUri =
                    IF eargs[r].fileUri \in {Undefined, Null, <<>>}
                    THEN Null ELSE eargs[r].fileUri
        /\ (epc[r] = "done" /\ lspIn[r] \in Responses) =>
              /\ Len(lspSent[r]) = 1 /\ cliSpawns[r] = 0
              /\ DOMAIN eresult[r] = {"success", "result", "error", "namespace", "stdout"}
              /\ eresult[r].success = lspIn[r].success
              /\ eresult[r].result = lspIn[r].result
              /\ eresult[r].error = lspIn[r].error
              /\ eresult[r].namespace = lspIn[r].namespace
              /\ eresult[r].stdout = lspIn[r].stdout

C4_Dispatch ==
    \A r \in Requests :
        (epc[r] = "idle" /\ epc'[r] # "idle" /\ client # 0 /\ isRunning) =>
            /\ epc'[r] = "lsp"
            /\ Len(lspSent'[r]) = 1 /\ lspSent'[r][1].client = client
            /\ cliSpawns'[r] = 0

C5_TimeoutFails ==
    \A r \in Requests :
        (epc[r] = "done" /\ cliSpawns[r] > 0 /\ cliOut[r].why = "timeout") =>
            eresult[r].success = FALSE

\* C5: every call that reaches the CLI fallback eventually resolves; when the
\* 30 s timeout fires before the child exited the call resolves with
\* success = false.
C5_CliResolves ==
    /\ \A r \in Requests : (epc[r] = "cli") ~> (epc[r] = "done")
    /\ []C5_TimeoutFails

C5_Witness ==
    \E r \in Requests :
        /\ epc[r] = "done" /\ cliSpawns[r] = 1 /\ lspFailed[r]
        /\ cliOut[r].why = "timeout" /\ eresult[r].success = FALSE

\* C6: for each annotation exactly one clear happens: the trigger that fires
\* first (edit of the document, or the 10 s timer) clears it, and the other
\* trigger performs no further clear.
C6_ExactlyOneClear == \A a \in Shows : clears[a] <= 1

C7_TempFileRemoved ==
    [][\A f \in Formats :
          (fpc[f] = "running" /\ fpc'[f] = "settled") => files'[ftmp[f]] = NoFile]_vars

\* C8: formatHotDocument never rejects: on every failure (write failure of
\* the temporary file, spawn failure, non-zero exit without the marker,
\* timeout, read-back exception) it resolves with an empty edit list.
C8_NeverRejects ==
    \A f \in Formats :
        fpc[f] = "settled" =>
            /\ fsettled[f] = "resolved"
            /\ (fexit[f].why = "write" \/ (fexit[f].error /\ ~fexit[f].marker)
                  \/ fread[f] = NoFile) => fedits[f] = <<>>

\* C9: the edit list has zero or one edits; on a clean exit of the formatter
\* it is empty when the read-back content equals the original text and is
\* one edit replacing offset 0 to the original length with the read-back
\* content when it differs.
C9_ZeroOrOneEdit ==
    \A f \in Formats :
        /\ Len(fedits[f]) <= 1
        /\ (fpc[f] = "settled" /\ fsettled[f] = "resolved" /\ ~fexit[f].error
              /\ fread[f] # NoFile) =>
              IF fread[f] = fcontent[f]
              THEN fedits[f] = <<>>
              ELSE /\ Len(fedits[f]) = 1
                   /\ fedits[f][1].from = 0
                   /\ fedits[f][1].to = Len(fcontent[f])
                   /\ fedits[f][1].newText = fread[f]

C9_Witness ==
    \E f \in Formats :
        /\ fpc[f] = "settled" /\ ~fexit[f].error /\ fread[f] # NoFile
        /\ fread[f] # fcontent[f] /\ Len(fread[f]) # Len(fcontent[f])
        /\ Len(fedits[f]) = 1


\* C12: for every document and every cursor line in it, getTopLevelForm
\* returns without raising: either no match, or a span with
\* 0 <= startLine <= endLine < lineCount.
C12_SpanWithinDocument ==
    /\ form # Raised
    /\ form \notin {NotRun, NoForm} =>
          /\ 0 <= form.startLine
          /\ form.startLine <= form.endLine
          /\ form.endLine < Len(document)

\* An unbalanced document whose start line was found above the cursor and
\* whose span was cut at the next top-level line.
C12_Witness ==
    /\ standalone = None
    /\ document = <<<<"a", " ", "{">>, <<" ", "a">>, <<"a">>>>
    /\ position = 1
    /\ form \notin {NotRun, NoForm, Raised}
    /\ form.startLine = 0 /\ form.endLine = 1

\* C11: the text T a run returned, opened as a document of its own, gives for
\* every cursor line a span whose text is T and which covers the whole
\* document.
C11_Idempotent ==
    standalone # None =>
        /\ form \notin {NoForm, Raised}
        /\ form.text = standalone.text
        /\ form.startLine = 0
        /\ form.endLine = Len(document) - 1

\* Line i of the document begins a top-level unit: it is neither blank nor a
\* comment, and its first character is a letter, an underscore or a colon.
BeginsTopLevelUnit(i) ==
    /\ ~IsBlankOrComment(LineAt(document, i))
    /\ IsTopLevelStart(LineAt(document, i))

\* C20: the span getTopLevelForm returns contains no line after its start
\* line that begins a new top-level unit.
C20_SingleTopLevelUnit ==
    form \notin {NotRun, NoForm, Raised} =>
        \A i \in (form.startLine + 1)..form.endLine : ~BeginsTopLevelUnit(i)

\* The timer of call a fires while the editor shows the annotation of
\* another call: that annotation stays.
C17_TimerStep ==
    \A a \in Shows :
        (timer[a] /\ ~timer'[a] /\ decorations # None /\ decorations.by # a) =>
            decorations' = decorations

\* C17: an annotation is removed only by an edit to its document, by its own
\* 10 s timer, by the clear command or by a later annotation taking its
\* place; the timer registered by an earlier evaluation never clears the
\* annotation of a later evaluation.
C17_OwnTimerOnly == [][C17_TimerStep]_vars

\* C16: any two calls of formatHotDocument that are in flight at the same
\* time have distinct temporary file paths.
C16_DistinctTempFiles ==
    \A f, g \in Formats :
        (f # g /\ fpc[f] = "running" /\ fpc[g] = "running") => ftmp[f] # ftmp[g]

\* No client is on its way to another state and no handler is suspended in
\* an await: every pending state event has been delivered.
Quiescent ==
    /\ \A c \in Clients : cstate[c] \notin {"initial", "starting", "stopping"}
    /\ \A c \in Clients : awaiting[c] = "none"

CurrentClientRunning == client # 0 /\ cstate[client] = "running"

\* C18: once all pending events are delivered, isRunning is true, and the
\* status bar shows running, exactly when the current client is in the
\* Running state: events of dropped or replaced clients do not alter it.
C18_ViewOfCurrentClient ==
    Quiescent =>
        /\ isRunning <=> CurrentClientRunning
        /\ statusBarItem.text = "check" <=> CurrentClientRunning

\* C19: isRunning is true only if a client handle exists and that client is
\* in the Running state.
C19_RunningImpliesClient == isRunning => CurrentClientRunning

\* No two entries of a log lie less than 24 hours apart.
OncePerWindow(log) ==
    \A i, j \in 1..Len(log) :
        i < j => log[j].at - log[i].at >= VERSION_CHECK_INTERVAL_MS

\* C13: across the activations that share the persisted last-check
\* timestamp the version endpoint is requested at most once in any 24-hour
\* window, and the update notification is shown at most once in it.
C13_OncePerDay == OncePerWindow(requestLog) /\ OncePerWindow(notifyLog)

\* startClient, called in the current state with any settings, creates and
\* starts a client exactly when there is no client handle, hot.lsp.enabled
\* is true and a workspace folder is open, and leaves the handle alone in
\* every other case.
C14_StartClientRule ==
    \A lspEnabled \in BOOLEAN, folders \in Folders :
        created < MaxClients =>
            LET g == startClient(Globals, lspEnabled, folders) IN
            IF client = 0 /\ lspEnabled /\ folders > 0
            THEN /\ g.created = created + 1
                 /\ g.client = g.created
                 /\ g.cstate[g.client] = "starting"
            ELSE /\ g.client = client
                 /\ g.created = created
                 /\ g.cstate = cstate

\* activate() ends with a started client exactly under those conditions.
C14_ActivateStep ==
    (session = "loaded" /\ session' = "active") =>
        /\ client' # 0 <=> (activation'.lspEnabled /\ activation'.folders > 0)
        /\ client' # 0 => (created' = 1 /\ cstate'[client'] = "starting")
        /\ client' = 0 => created' = 0

\* No step replaces an existing client handle by another client, and a
\* client is only ever created into an empty handle.
C14_HandleStep ==
    /\ (client # 0 /\ client' # 0) => client' = client
    /\ created' # created => (client = 0 /\ client' = created' /\ created' = created + 1)

\* C14: startClient creates and starts a language client exactly when no
\* client handle exists, hot.lsp.enabled is true and at least one workspace
\* folder is open, and is a no-op on the handle otherwise; activate() calls
\* it, so the server starts on activation under those conditions.
C14_AutoStart ==
    /\ []C14_StartClientRule
    /\ [][C14_ActivateStep]_vars
    /\ [][C14_HandleStep]_vars

\* The extension was activated with the server enabled and a folder open,
\* its client was started, and a later hot.startAnalyzer left it in place.
C14_Witness ==
    /\ session = "active"
    /\ activation.lspEnabled /\ activation.folders > 0
    /\ client = 1 /\ created = 1 /\ cstate[1] = "running"
    /\ statusBarItem.text = "check"

\* C15: after deactivate() has completed the client handle, the status bar
\* item, the REPL terminal handle, the eval decoration type and the eval
\* output channel are all null.
C15_AllReleased ==
    session = "deactivated" =>
        /\ client = 0
        /\ statusBarItem = NoItem
        /\ replTerminal = 0
        /\ evalResultDecorationType = 0
        /\ ~evalOutputChannel

\* The least line of a non-empty set of lines.
Least(S) == CHOOSE x \in S : \A y \in S : x <= y

\* Opening minus closing braces of a text.
BraceNesting(text) == Count(text, "{") - Count(text, "}")

\* At the end of line i brace nesting, counted from line s on, is zero and
\* has been positive before.
BodyOpenedAndClosed(s, i) ==
    LET t == GetText(document, s, i)
    IN  /\ BraceNesting(t) = 0
        /\ \E p \in 1..Len(t) : BraceNesting(SubSeq(t, 1, p)) > 0

\* The lines from s on at whose end a body was opened and closed, and the
\* lines after s that begin a new top-level unit.
ClosingLines(s) == {i \in s..(Len(document) - 1) : BodyOpenedAndClosed(s, i)}

UnitLines(s) == {i \in (s + 1)..(Len(document) - 1) : BeginsTopLevelUnit(i)}

\* Where a scan from line s ends when one of the two stop conditions is met:
\* on the first closing line, or on the line before the first new unit when
\* that unit begins earlier. A unit that begins on the closing line itself
\* counts as earlier when sameLine is TRUE.
ScanEnd(s, sameLine) ==
    LET c == IF ClosingLines(s) = {} THEN Len(document) ELSE Least(ClosingLines(s))
        u == IF UnitLines(s) = {} THEN Len(document) ELSE Least(UnitLines(s))
    IN  IF u < c \/ (sameLine /\ u = c) THEN u - 1 ELSE c

\* The function of three lines whose body opens on the declaration line and
\* closes on the last line.
FnDocument == <<FnDeclaration, <<" ", "n">>, <<"}">>>>

\* C21: the downward scan ends on the first line at whose end brace nesting
\* has returned to zero after having been positive, unless a new top-level
\* unit begins earlier (then on the line before that unit); and for the
\* three-line function with the cursor on its body line the span is the
\* declaration line through the closing-brace line.
C21_ScanEndsWhereBodyCloses ==
    /\ (form \notin {NotRun, NoForm, Raised}
            /\ (ClosingLines(form.startLine) # {} \/ UnitLines(form.startLine) # {})) =>
          form.endLine \in {ScanEnd(form.startLine, TRUE), ScanEnd(form.startLine, FALSE)}
    /\ (form # NotRun /\ standalone = None /\ document = FnDocument /\ position = 1) =>
          /\ form \notin {NoForm, Raised}
          /\ form.startLine = 0 /\ form.endLine = 2

\* The three-line function was scanned from its body line.
C21_FnExample ==
    /\ form \notin {NotRun, NoForm, Raised}
    /\ standalone = None /\ document = FnDocument /\ position = 1
    /\ form.startLine = 0 /\ form.endLine = 2

\* The line that begins the unit the cursor is in: the nearest line at or
\* above the cursor that begins a top-level unit (-1 when there is none).
UnitAtCursor ==
    LET above == {i \in 0..position : BeginsTopLevelUnit(i)}
    IN  IF above = {} THEN -1 ELSE CHOOSE i \in above : \A j \in above : j <= i

\* The unit at the cursor is a namespace declaration: its first line is a
\* header `::path ns`, and only blank and comment lines follow it up to the
\* next unit or the end of the document.
CursorInNamespaceDeclaration ==
    /\ UnitAtCursor >= 0
    /\ MatchesNsDeclaration(LineAt(document, UnitAtCursor))
    /\ \A i \in (UnitAtCursor + 1)..(Len(document) - 1) :
          (\A j \in (UnitAtCursor + 1)..i : ~BeginsTopLevelUnit(j)) =>
              IsBlankOrComment(LineAt(document, i))

\* C22: getTopLevelForm returns no match whenever the unit at the cursor is
\* a namespace declaration, whatever blank or comment lines follow the
\* header before the next unit.
C22_NamespaceNeverReturned ==
    (form # NotRun /\ CursorInNamespaceDeclaration) => form = NoForm

\* Some line from s on has an opening brace, and from the first opening
\* brace on brace nesting, counted from line s, is positive at the end of
\* every line: the body that was opened is never closed.
NeverClosed(s) ==
    /\ Count(GetText(document, s, Len(document) - 1), "{") > 0
    /\ \A i \in s..(Len(document) - 1) :
          Count(GetText(document, s, i), "{") > 0 =>
              BraceNesting(GetText(document, s, i)) > 0

\* Brace nesting, counted from line s, becomes positive and is not zero at
\* the end of any line after that.
Unbalanced(s) ==
    /\ \E p \in 1..Len(GetText(document, s, Len(document) - 1)) :
          BraceNesting(SubSeq(GetText(document, s, Len(document) - 1), 1, p)) > 0
    /\ ClosingLines(s) = {}

WordLinesAbove ==
    {i \in 0..position : LineAt(document, i) # <<>> /\ LineAt(document, i)[1] \in WordStart}

\* C24: the start line is the nearest line at or above the cursor whose
\* first character is a letter, an underscore or a colon, blank and comment
\* lines in between being skipped; when there is no such line the start
\* line is the cursor line.
C24_StartLine ==
    form \notin {NotRun, NoForm, Raised} =>
        form.startLine = IF WordLinesAbove = {} THEN position
                         ELSE CHOOSE i \in WordLinesAbove : \A j \in WordLinesAbove : j <= i

\* The cursor is on a blank line between two units, and the declaration
\* above it was selected.
C24_Witness ==
    /\ standalone = None
    /\ document = <<<<"a">>, <<>>, <<"a">>>>
    /\ position = 1
    /\ form \notin {NotRun, NoForm, Raised}
    /\ form.startLine = 0 /\ form.endLine = 1

\* Side-output is present: stdout was passed and is not only whitespace.
SideOutputPresent(stdout) == stdout \notin {Undefined, Null, <<>>} /\ Trim(stdout) # <<>>

\* The text the annotation is composed of for a result and a side-output.
ComposedText(result, stdout) ==
    IF SideOutputPresent(stdout)
    THEN Trim(stdout) \o (IF result = <<>> \/ result = <<"n", "u", "l", "l">>
                          THEN <<>>
                          ELSE <<" ", "=", ">", " ">> \o result)
    ELSE <<"=", ">", " ">> \o result

\* A text that is displayed as it is: without a line feed and not longer
\* than maxLen.
DisplayedAsIs(text) == Len(text) <= maxLen /\ \A k \in 1..Len(text) : text[k] # "\n"

\* C25: the annotation text is the side-output followed by ` => result`
\* (suffix omitted when the result is empty or `null`) when side-output is
\* present, and `=> result` when stdout is absent, empty or only
\* whitespace; stated for the texts that need no truncation and hold no
\* line feed.
C25_Composition ==
    (decorations # None /\ DisplayedAsIs(ComposedText(decorations.result, decorations.stdout))) =>
        decorations.contentText = ComposedText(decorations.result, decorations.stdout)

\* The callback of call f runs for a formatter that failed with the
\* CHAR-AUDIT marker in its error stream: the edits resolved are those the
\* clean-exit path gives for the same temporary file, which are one edit
\* over the whole original text when the file can be read and differs from
\* it, and none otherwise.
C26_CallbackStep ==
    \A f \in Formats :
        (fpc[f] = "running" /\ fpc'[f] = "settled" /\ fexit'[f].error /\ fexit'[f].marker) =>
            /\ fedits'[f] =
                  FormatCallback(fcontent[f], files[ftmp[f]], FALSE, FALSE, fexit'[f].readOk).edits
            /\ fedits'[f] =
                  IF files[ftmp[f]] # NoFile /\ fexit'[f].readOk /\ files[ftmp[f]] # fcontent[f]
                  THEN <<[from |-> 0, to |-> Len(fcontent[f]), newText |-> files[ftmp[f]]]>>
                  ELSE <<>>

\* C26: when the formatter exits non-zero with the CHAR-AUDIT marker in its
\* error stream, formatHotDocument returns the edit list of the clean-exit
\* path for the same temp-file state: one full-range edit if the read-back
\* content differs from the original, none if it is equal or unreadable.
C26_CharAuditAsCleanExit == [][C26_CallbackStep]_vars

\* A formatter failed with the CHAR-AUDIT marker after rewriting the file,
\* and the call resolved with one edit.
C26_Witness ==
    \E f \in Formats :
        /\ fpc[f] = "settled" /\ fexit[f] # None
        /\ fexit[f].error /\ fexit[f].marker /\ fexit[f].why = "exit"
        /\ fread[f] # NoFile /\ fread[f] # fcontent[f]
        /\ Len(fedits[f]) = 1

\* The calls of sendToRepl whose text was delivered, in the order of delivery.
Delivered == SelectSeq(replSent, LAMBDA x : x # ReplCommand)

\* C27: texts passed to sendToRepl are delivered to the REPL terminal in the
\* order of the calls, also when the first call starts the REPL and a second
\* call follows before the 1.5 s delay has elapsed.
C27_DeliveredInCallOrder ==
    \A i, j \in 1..Len(Delivered) : i < j => Delivered[i] < Delivered[j]

\* C28: every evaluateHotCode call eventually resolves with an EvalResult,
\* also when its request was sent to the server and the server never
\* answers.
C28_EveryCallResolves ==
    \A r \in Requests : (epc[r] \in {"lsp", "cli"}) ~> (epc[r] = "done")

\* C29: once checkForUpdates has passed its rate-limit gate, the polling
\* for the installed version eventually stops, with the version check
\* performed or given up, also when the probe fails and installedVersion
\* is never set.
C29_WaitTerminates ==
    \A a \in Activations : (upc[a] = "waiting") ~> (upc[a] # "waiting")

\* Component i of a version, a missing component counting as 0.
PartAt(parts, i) == IF i <= Len(parts) THEN parts[i] ELSE 0

\* The order of two versions by their components: -1, 0 or 1 by the first
\* component in which they differ.
NumericOrder(pa, pb) ==
    LET len  == IF Len(pa) > Len(pb) THEN Len(pa) ELSE Len(pb)
        diff == {i \in 1..len : PartAt(pa, i) # PartAt(pb, i)}
    IN  IF diff = {} THEN 0
        ELSE IF PartAt(pa, Least(diff)) < PartAt(pb, Least(diff)) THEN -1 ELSE 1

\* C30: compareSemver(a, b) is -1, 0 or 1 as a is less than, equal to or
\* greater than b under numeric component-wise comparison (a leading `v`
\* ignored, missing components counted as 0); it is antisymmetric; and it
\* orders 0.3.9 before 0.4.0.
C30_NumericOrder ==
    comparison # NotCompared =>
        /\ comparison.result = NumericOrder(comparison.a.parts, comparison.b.parts)
        /\ comparison.result = -comparison.reverse
        /\ (comparison.a.text = <<"0", ".", "3", ".", "9">>
                /\ comparison.b.text = <<"0", ".", "4", ".", "0">>) => comparison.result = -1

\* 0.3.9 was compared with 0.4.0 and ordered before it.
C30_Witness ==
    /\ comparison # NotCompared
    /\ comparison.a.text = <<"0", ".", "3", ".", "9">>
    /\ comparison.b.text = <<"0", ".", "4", ".", "0">>
    /\ comparison.result = -1 /\ comparison.reverse = 1

====
